---- MODULE Spec2Model ----
(***************************************************************************)
(* Control core of the Daisy Patch SM arpeggiator: the main loop of the    *)
(* three source variants                                                   *)
(*   "arp"   src/arp.cpp            (fixed 4-step chord, no note queue)    *)
(*   "p000"  src/unnamed/part_000   (8 patterns, note queue, 120 BPM       *)
(*                                   internal clock)                       *)
(*   "p001"  src/unnamed/part_001   (6 patterns, note queue, pot tempo)    *)
(* One loop iteration is split into the phases the code runs in order:     *)
(* toggle -> pattern -> note -> clock -> step -> delay.  All reads of      *)
(* System::GetNow() within one iteration return the same millisecond.      *)
(*                                                                         *)
(* float values (bpm, step_interval_ms, voltages, ADC readings) are exact  *)
(* rationals [n, d]; uint32_t timestamps are integers modulo TickWrap.     *)
(***************************************************************************)
EXTENDS Integers, Sequences, FiniteSets, TLC

VARIABLES
  variant,                   \* which source file runs
  pc,                        \* position in the loop body
  now,                       \* System::GetNow(), ms, uint32_t
  iter,                      \* loop iterations completed
  events,                    \* input events so far: changed readings, triggers
  tempo_cv,                  \* last CV_2 reading (part_001)
  internal_clock_enabled,
  base_note_cv,
  quantized_note,
  next_quantized_note,
  note_change_pending,
  bpm,
  last_gate_time,
  gate_triggered,
  arp_step,
  last_step_time,
  step_interval_ms,
  last_internal_clock_time,
  current_pattern,
  pattern_length,
  pattern_cv,                \* last CV_1 reading
  chord_index,               \* last chord index used by a step emission
  cv_out_1,                  \* last value written to CV_OUT_1 (volts)
  gate_out_1,                \* last level written to gate_out_1
  gate_wr,                   \* write to gate_out_1 in this iteration
  mode_switch,               \* clock-source transition of this iteration
  pattern_changed,           \* the pattern was changed in this iteration
  note_act,                  \* branch the note-change check took in this iteration
  promoted,                  \* a pending note was promoted in this iteration
  clock_tick,                \* a clock tick was handled in this iteration
  fired,                     \* some step has been emitted
  fire_time,                 \* time of the last step emission
  fire_root,                 \* root note the last step emission played
  low_since_fire,            \* gate written low since the last emission
  emitted,                   \* steps emitted since the last clock tick
  prev_pass,                 \* steps emitted between the last two ticks
  ticks,                     \* external triggers handled (saturating)
  trig_seen,                 \* a trigger was recorded since start / int->ext
  since_switch,              \* external triggers handled since the last
                             \* internal->external switch (saturating at 2);
                             \* -1 before the first such switch
  tick_interval,             \* ms since the recorded trigger, at this iteration's
                             \* external trigger; -1 without one
  step_age,                  \* ms really passed since last_step_time was
                             \* written (since counter value 0 before that),
                             \* saturating at TickWrap
  clock_age,                 \* the same for last_internal_clock_time
  trig_period                \* steady environment: ms between triggers

engine == <<internal_clock_enabled, bpm,
            last_gate_time, gate_triggered, arp_step, last_step_time,
            step_interval_ms, last_internal_clock_time>>
notes == <<base_note_cv, quantized_note, next_quantized_note,
           note_change_pending>>
pattern == <<current_pattern, pattern_length, pattern_cv>>
outputs == <<chord_index, cv_out_1, gate_out_1, gate_wr>>
history == <<mode_switch, note_act, promoted, clock_tick, fired, fire_time,
             fire_root, low_since_fire, emitted,
             prev_pass, ticks, trig_seen, since_switch, tick_interval>>
ages == <<step_age, clock_age>>
vars == <<variant, pc, now, iter, events, tempo_cv, engine, notes, pattern, outputs, history,
          pattern_changed, ages, trig_period>>

-----------------------------------------------------------------------------
(* Bounds of the model *)

MaxIter == 4            \* loop iterations explored by Spec
MaxEvents == 3          \* input events (changed readings, triggers) explored by Spec
SteadyMaxIter == 1010    \* loop iterations explored by SpecSteady
BootTime == 1           \* System::GetNow() when the loop is entered
TickWrap == 1048576     \* modulus of the millisecond counter in the model

-----------------------------------------------------------------------------
(* Exact rational arithmetic standing in for float *)

Abs(x) == IF x < 0 THEN -x ELSE x

RECURSIVE Gcd(_, _)
Gcd(a, b) == IF b = 0 THEN a ELSE Gcd(b, a % b)

Rat(n, d) ==
  LET g == Gcd(Abs(n), Abs(d))
      s == IF d < 0 THEN -1 ELSE 1
  IN  [n |-> (s * n) \div g, d |-> (s * d) \div g]

RInt(i) == [n |-> i, d |-> 1]
RAdd(a, b) == Rat(a.n * b.d + b.n * a.d, a.d * b.d)
RMul(a, b) == Rat(a.n * b.n, a.d * b.d)
RDiv(a, b) == Rat(a.n * b.d, a.d * b.n)
RLt(a, b) == a.n * b.d < b.n * a.d
RLe(a, b) == a.n * b.d <= b.n * a.d
\* static_cast<int>(float): truncation toward zero
RTrunc(a) == IF a.n >= 0 THEN a.n \div a.d ELSE -((-a.n) \div a.d)
\* roundf: nearest integer, halfway cases away from zero
RRound(a) ==
  IF a.n >= 0 THEN (2 * a.n + a.d) \div (2 * a.d)
  ELSE -((2 * (-a.n) + a.d) \div (2 * a.d))

(* uint32_t arithmetic.  TLC's integers are 32 bits wide, so the millisecond *)
(* counter is narrowed: it wraps at TickWrap instead of 2^32.               *)
Add32(a, b) == (a + b) % TickWrap
\* variant of Sub32 that subtracts without the wrap
Sub32_Signed(a, b) == a - b
Sub32(a, b) == (a - b + TickWrap) % TickWrap

-----------------------------------------------------------------------------
(* Build-time configuration data *)

Variants == {"arp", "p000", "p001"}
Queued == {"p000", "p001"}      \* the variants with a note-change queue

internal_clock_bpm == 120
internal_clock_interval_ms == 500
MIN_BPM == 20
MAX_BPM == 200
GatePulseMs == 10
ArpSteps == 4

chord_intervals == [i \in 0..3 |-> CASE i = 0 -> 0 [] i = 1 -> 4
                                     [] i = 2 -> 7 [] OTHER -> 10]

Arr(s) == [i \in 0..(Len(s) - 1) |-> s[i + 1]]

pattern_up == Arr(<<0, 1, 2, 3>>)
pattern_down == Arr(<<3, 2, 1, 0>>)
pattern_up_down_4 == Arr(<<0, 1, 2, 3>>)
pattern_down_up_4 == Arr(<<3, 2, 1, 0>>)
pattern_up_down_8 == Arr(<<0, 1, 2, 3, 3, 2, 1, 0>>)
pattern_down_up_8 == Arr(<<3, 2, 1, 0, 0, 1, 2, 3>>)
pattern_up_down == Arr(<<0, 1, 2, 3, 2, 1>>)
pattern_down_up == Arr(<<3, 2, 1, 0, 1, 2>>)
pattern_1_3_2_4 == Arr(<<0, 2, 1, 3>>)

ARP_PATTERN_COUNT(v) == IF v = "p000" THEN 8 ELSE IF v = "p001" THEN 6 ELSE 1

\* variant of pattern_lengths with ARP_UP_DOWN_8 / ARP_UP_DOWN given 4 steps
pattern_lengths_Short(v) ==
  IF v = "p000" THEN Arr(<<4, 4, 4, 4, 4, 8, 4, 4>>)
  ELSE IF v = "p001" THEN Arr(<<4, 4, 4, 6, 4, 4>>)
  ELSE Arr(<<4>>)

pattern_lengths(v) ==
  IF v = "p000" THEN Arr(<<4, 4, 4, 4, 8, 8, 4, 4>>)
  ELSE IF v = "p001" THEN Arr(<<4, 4, 6, 6, 4, 4>>)
  ELSE Arr(<<4>>)

\* the enum value of ARP_RANDOM
ARP_RANDOM(v) == IF v = "p000" THEN 6 ELSE IF v = "p001" THEN 4 ELSE -1

-----------------------------------------------------------------------------
(* Pure functions *)

\* variant of QuantizeCvToNote with 0 V at note 12 instead of note 11
QuantizeCvToNote_Offset12(cv_normalized) ==
  LET cv_volts == RMul(cv_normalized, RInt(5))
      note_float == RAdd(RMul(cv_volts, RInt(12)), RInt(12))
  IN  RRound(note_float)

\* note = round(cv_normalized * 5 * 12 + 11)
QuantizeCvToNote(cv_normalized) ==
  LET cv_volts == RMul(cv_normalized, RInt(5))
      note_float == RAdd(RMul(cv_volts, RInt(12)), RInt(11))
  IN  RRound(note_float)

\* volts = (midi_note - 11) / 12
NoteToCv(midi_note) == Rat(midi_note - 11, 12)

\* rnd stands for the value of rand()
GetPatternIndex(v, pat, step, rnd) ==
  IF v = "p000" THEN
    CASE pat = 0 -> pattern_up[step % 4]
      [] pat = 1 -> pattern_down[step % 4]
      [] pat = 2 -> pattern_up_down_4[step % 4]
      [] pat = 3 -> pattern_down_up_4[step % 4]
      [] pat = 4 -> pattern_up_down_8[step % 8]
      [] pat = 5 -> pattern_down_up_8[step % 8]
      [] pat = 6 -> rnd % 4
      [] pat = 7 -> pattern_1_3_2_4[step % 4]
      [] OTHER -> pattern_up[step % 4]
  ELSE IF v = "p001" THEN
    CASE pat = 0 -> pattern_up[step % 4]
      [] pat = 1 -> pattern_down[step % 4]
      [] pat = 2 -> pattern_up_down[step % 6]
      [] pat = 3 -> pattern_down_up[step % 6]
      [] pat = 4 -> rnd % 4
      [] pat = 5 -> pattern_1_3_2_4[step % 4]
      [] OTHER -> pattern_up[step % 4]
  ELSE step        \* arp.cpp indexes chord_intervals with arp_step itself

\* variant of SelectPattern that maps every reading as part_000 does
SelectPattern_BipolarOnly(v, cv_normalized) ==
  LET cv_0_to_1 == RDiv(RAdd(cv_normalized, RInt(1)), RInt(2))
      idx == RTrunc(RMul(cv_0_to_1, RInt(ARP_PATTERN_COUNT(v))))
  IN  IF idx < 0 THEN 0
      ELSE IF idx >= ARP_PATTERN_COUNT(v) THEN ARP_PATTERN_COUNT(v) - 1
      ELSE idx

SelectPattern(v, cv_normalized) ==
  IF v = "p000" THEN
    LET cv_0_to_1 == RDiv(RAdd(cv_normalized, RInt(1)), RInt(2))
        idx == RTrunc(RMul(cv_0_to_1, RInt(ARP_PATTERN_COUNT(v))))
    IN  IF idx < 0 THEN 0
        ELSE IF idx >= ARP_PATTERN_COUNT(v) THEN ARP_PATTERN_COUNT(v) - 1
        ELSE idx
  ELSE
    LET raw == IF RLt(cv_normalized, RInt(0))
               THEN RDiv(RAdd(cv_normalized, RInt(1)), RInt(2))
               ELSE cv_normalized
        cv_0_to_1 == IF RLt(raw, RInt(0)) THEN RInt(0)
                     ELSE IF RLt(RInt(1), raw) THEN RInt(1) ELSE raw
        idx == RTrunc(RMul(cv_0_to_1, RInt(ARP_PATTERN_COUNT(v))))
    IN  IF idx >= ARP_PATTERN_COUNT(v) THEN ARP_PATTERN_COUNT(v) - 1 ELSE idx

\* part_001: CV_2 reading -> BPM in [MIN_BPM, MAX_BPM]
TempoBpm(cv) ==
  LET raw == IF RLt(cv, RInt(0))
             THEN RDiv(RAdd(cv, RInt(1)), RInt(2))
             ELSE cv
      tempo_cv_normalized == IF RLt(raw, RInt(0)) THEN RInt(0)
                             ELSE IF RLt(RInt(1), raw) THEN RInt(1) ELSE raw
  IN  RAdd(RInt(MIN_BPM), RMul(tempo_cv_normalized, RInt(MAX_BPM - MIN_BPM)))

\* variant of ClampCv without the upper limit
ClampCv_NoUpper(output_cv) ==
  IF RLt(output_cv, RInt(0)) THEN RInt(0) ELSE output_cv

\* clamp to the DAC range before WriteCvOut
ClampCv(output_cv) ==
  IF RLt(output_cv, RInt(0)) THEN RInt(0)
  ELSE IF RLt(RInt(5), output_cv) THEN RInt(5)
  ELSE output_cv

-----------------------------------------------------------------------------
(* Readings the transducer layer can deliver, as normalized values *)

\* root CV: notes -49, 11, 71
RootCvSet == {Rat(-1, 1), Rat(0, 1), Rat(1, 1)}
\* pattern CV: a 4-step, a 6- or 8-step and the random pattern
PatternCvSet == {Rat(-1, 1), Rat(3, 8), Rat(11, 16)}
\* tempo pot: 20 BPM, 200 BPM
TempoCvSet == {Rat(0, 1), Rat(1, 1)}
\* ms from one loop iteration to the next (Delay(1) plus load; the larger
\* values stand for runs of iterations in which nothing is read anew)
DtSet == {6, 125}
TrigIntervals == {44, 48, 500} \* steady external clocks of SpecSteady
SteadyRootCv == Rat(13, 16)    \* a C root (note 60)

-----------------------------------------------------------------------------
(* Decisions of the loop body *)

\* a reading that differs from the previous one counts as one change
Changed(differs) == IF differs THEN 1 ELSE 0

\* variant of NoteChanged that compares against the active root alone
NoteChanged_ActiveOnly(new_note, q, nq) == new_note # q

\* the note differs from the active root and from the pending value
NoteChanged(new_note, q, nq) == new_note # q /\ new_note # nq

\* variant of MidPattern with the step test inverted
MidPattern_AtStart(step, trig) == step = 0 /\ trig

\* variant of MidPattern with || in place of &&
MidPattern_Either(step, trig) == step # 0 \/ trig

\* in the middle of a pattern: queue the change
MidPattern(step, trig) == step # 0 /\ trig

\* it is time for the next step
StepDue(elapsed, interval) == RLe(interval, RInt(elapsed))

\* variant of GateOffDue with a 5 ms pulse
GateOffDue_Short(elapsed) == elapsed > 5

\* the short gate pulse is over
GateOffDue(elapsed) == elapsed > GatePulseMs

\* variant of GateLowDue in which the idle branch does not write the gate
GateLowDue_PlayingOnly(trig, elapsed) == trig /\ GateOffDue(elapsed)

\* no step is due: the gate is written low when idle, or when the pulse is over
GateLowDue(trig, elapsed) == ~trig \/ GateOffDue(elapsed)

\* step interval computed from a measured trigger interval
TriggerStepInterval(v, interval_ms, len) ==
  IF v = "p001" THEN Rat(interval_ms, len) ELSE Rat(interval_ms, ArpSteps)

\* variant of DrainedNote that plays the pending value at every step
DrainedNote_Always(step, pending, q, nq) == nq

\* variant of DrainedNote that never promotes the pending note
DrainedNote_Never(step, pending, q, nq) == q

\* the root note a step emission plays
DrainedNote(step, pending, q, nq) == IF step = 0 /\ pending THEN nq ELSE q

\* variant of TriggeredAfterToggle that stops playback in every iteration
TriggeredAfterToggle_Always(falling, trig) == FALSE

\* an internal->external transition stops playback ...
TriggeredAfterToggle(falling, trig) == IF falling THEN FALSE ELSE trig

\* variant of GateTimeAfterToggle that keeps the stale timestamp
GateTimeAfterToggle_Stale(falling, t) == t

\* ... and forgets the last trigger timestamp
GateTimeAfterToggle(falling, t) == IF falling THEN 0 ELSE t

\* variant of TempoUpdateDue that measures from a forgotten timestamp too
TempoUpdateDue_NoTimestampGuard(measure, last, interval_ms) ==
  measure /\ interval_ms > 0

\* variant of TempoUpdateDue without the zero-interval guard
TempoUpdateDue_NoZeroGuard(measure, last, interval_ms) == measure /\ last > 0

\* the tempo is measured from an external trigger that follows a recorded
\* trigger by more than 0 ms
TempoUpdateDue(measure, last, interval_ms) ==
  measure /\ last > 0 /\ interval_ms > 0

\* variant of TickStepTime in which a tick leaves the step timer running
TickStepTime_Stale(t, old) == old

\* a tick restarts the step timer: last_step_time = current_time
TickStepTime(t, old) == t

\* variant of StepAfterPatternChange that keeps the step position
StepAfterPatternChange_Kept(step) == step

\* a pattern change restarts the pattern: arp_step = 0
StepAfterPatternChange(step) == 0

\* variant of StepModulus that wraps one step late
StepModulus_Late(v, len) == len + 1

\* wrap of the step counter
StepModulus(v, len) == IF v = "arp" THEN ArpSteps ELSE len

-----------------------------------------------------------------------------
(* Initial state: the globals' initialisers *)

\* everything but the values the pure functions are applied to
InitRest ==
  /\ now = BootTime
  /\ iter = 0
  /\ events = 0
  /\ tempo_cv = Rat(0, 1)
  /\ internal_clock_enabled = FALSE
  /\ quantized_note = 0
  /\ next_quantized_note = 0
  /\ note_change_pending = FALSE
  /\ bpm = RInt(120)
  /\ last_gate_time = 0
  /\ gate_triggered = FALSE
  /\ last_step_time = 0
  /\ step_interval_ms = RInt(125)
  /\ last_internal_clock_time = 0
  /\ chord_index = 0
  /\ cv_out_1 = RInt(0)
  /\ gate_out_1 = FALSE
  /\ gate_wr = "none"
  /\ mode_switch = "none"
  /\ note_act = "none"
  /\ promoted = FALSE
  /\ clock_tick = FALSE
  /\ fired = FALSE
  /\ fire_time = 0
  /\ fire_root = 0
  /\ low_since_fire = TRUE
  /\ emitted = <<>>
  /\ prev_pass = <<>>
  /\ ticks = 0
  /\ trig_seen = FALSE
  /\ since_switch = -1
  /\ pattern_changed = FALSE
  /\ tick_interval = -1
  /\ step_age = BootTime
  /\ clock_age = BootTime

InitCommon ==
  /\ InitRest
  /\ variant \in Variants
  /\ pc = "toggle"
  /\ base_note_cv = Rat(0, 1)
  /\ pattern_cv = Rat(0, 1)
  /\ arp_step = 0
  /\ current_pattern = 0
  /\ pattern_length = 4

Init == InitCommon /\ trig_period = 0

InitSteady == InitCommon /\ trig_period \in TrigIntervals

-----------------------------------------------------------------------------
(* Phase 1: read the clock toggle (and, in part_001, the tempo pot) *)

Toggle(pressed, tempo) ==
  LET rising == pressed /\ ~internal_clock_enabled
      falling == ~pressed /\ internal_clock_enabled
  IN
  /\ pc = "toggle"
  /\ tempo_cv' = IF variant = "p001" THEN tempo ELSE tempo_cv
  /\ events' = events + Changed(pressed # internal_clock_enabled)
                       + Changed(tempo_cv' # tempo_cv)
  /\ internal_clock_enabled' = pressed
  /\ IF variant = "p001"
       THEN /\ bpm' = IF pressed THEN TempoBpm(tempo) ELSE bpm
            /\ UNCHANGED <<last_internal_clock_time, step_interval_ms>>
       ELSE /\ last_internal_clock_time' =
                 IF rising THEN now ELSE last_internal_clock_time
            /\ bpm' = IF rising THEN RInt(internal_clock_bpm) ELSE bpm
            /\ step_interval_ms' =
                 IF rising THEN Rat(internal_clock_interval_ms, ArpSteps)
                 ELSE step_interval_ms
  /\ clock_age' = IF variant # "p001" /\ rising THEN 0 ELSE clock_age
  /\ gate_triggered' = TriggeredAfterToggle(falling, gate_triggered)
  /\ last_gate_time' = GateTimeAfterToggle(falling, last_gate_time)
  /\ trig_seen' = IF falling THEN FALSE ELSE trig_seen
  /\ since_switch' = IF falling THEN 0 ELSE since_switch
  /\ mode_switch' = IF rising THEN "to_internal"
                    ELSE IF falling THEN "to_external" ELSE "none"
  /\ pc' = IF variant = "arp" THEN "note" ELSE "pattern"
  /\ UNCHANGED <<variant, now, iter, arp_step, last_step_time, notes, pattern,
                 outputs, note_act, promoted, clock_tick, fired, fire_time,
                 fire_root, low_since_fire,
                 emitted, prev_pass, ticks, tick_interval, pattern_changed,
                 step_age, trig_period>>

(* Phase 2: pattern selection from CV_1 (part_000, part_001) *)

PatternSelect(reading) ==
  LET new_pattern == SelectPattern(variant, reading)
      new_length == pattern_lengths(variant)[new_pattern]
  IN
  /\ pc = "pattern"
  /\ pattern_cv' = reading
  /\ IF new_pattern # current_pattern
       THEN /\ current_pattern' = new_pattern
            /\ pattern_length' = new_length
            /\ arp_step' = StepAfterPatternChange(arp_step)
            /\ step_interval_ms' =
                 IF variant = "p001"
                 THEN RDiv(RDiv(RInt(60000), bpm), RInt(new_length))
                 ELSE step_interval_ms
       ELSE UNCHANGED <<current_pattern, pattern_length, arp_step,
                        step_interval_ms>>
  /\ pattern_changed' = (new_pattern # current_pattern)
  /\ events' = events + Changed(new_pattern # current_pattern)
  /\ pc' = "note"
  /\ UNCHANGED <<variant, now, iter, tempo_cv, internal_clock_enabled,
                 bpm, last_gate_time,
                 gate_triggered, last_step_time, last_internal_clock_time,
                 notes, outputs, history, ages, trig_period>>

(* Phase 3: read the root CV and run the note-change check *)

NoteCheck(cv) ==
  LET new_note == QuantizeCvToNote(cv) IN
  /\ pc = "note"
  /\ base_note_cv' = cv
  /\ IF variant = "arp"
       THEN /\ quantized_note' = new_note
            /\ note_act' = "assigned"
            /\ UNCHANGED <<next_quantized_note, note_change_pending>>
       ELSE IF NoteChanged(new_note, quantized_note, next_quantized_note)
         THEN IF MidPattern(arp_step, gate_triggered)
                THEN /\ next_quantized_note' = new_note
                     /\ note_change_pending' = TRUE
                     /\ note_act' = "queued"
                     /\ UNCHANGED quantized_note
                ELSE /\ quantized_note' = new_note
                     /\ next_quantized_note' = new_note
                     /\ note_change_pending' = FALSE
                     /\ note_act' = "immediate"
         ELSE /\ note_act' = "noop"
              /\ UNCHANGED <<quantized_note, next_quantized_note,
                             note_change_pending>>
  /\ events' = events + Changed(cv # base_note_cv)
  /\ pc' = "clock"
  /\ UNCHANGED <<variant, now, iter, tempo_cv, engine, pattern, outputs,
                 mode_switch, promoted, clock_tick, fired, fire_time,
                 fire_root, low_since_fire, emitted, prev_pass, ticks, trig_seen,
                 since_switch, tick_interval, pattern_changed, ages,
                 trig_period>>

(* Phase 4: clock source (internal generator or external gate input) *)

\* the shared trigger handler: tempo measurement and playback reset
HandleTrigger(t, measure) ==
  LET interval_ms == Sub32(t, last_gate_time)
      update == TempoUpdateDue(measure, last_gate_time, interval_ms)
  IN
  /\ bpm' = IF update THEN Rat(60000, interval_ms) ELSE bpm
  /\ step_interval_ms' =
       IF update THEN TriggerStepInterval(variant, interval_ms, pattern_length)
       ELSE step_interval_ms
  /\ last_gate_time' = t
  /\ gate_triggered' = TRUE
  /\ arp_step' = 0
  /\ last_step_time' = TickStepTime(t, last_step_time)
  /\ step_age' = TickStepTime(0, step_age)
  /\ clock_tick' = TRUE
  /\ prev_pass' = emitted
  /\ emitted' = <<>>
  /\ ticks' = IF measure /\ ticks < 3 THEN ticks + 1 ELSE ticks
  /\ trig_seen' = IF measure THEN TRUE ELSE trig_seen
  /\ since_switch' = IF measure /\ since_switch \in {0, 1}
                      THEN since_switch + 1 ELSE since_switch
  /\ tick_interval' = IF measure /\ trig_seen THEN interval_ms ELSE -1

\* arp.cpp and part_000: a 120 BPM internal generator or the gate input
ClockFixed(t, trig) ==
  LET clock_trigger ==
        IF internal_clock_enabled
        THEN Sub32(t, last_internal_clock_time) >= internal_clock_interval_ms
        ELSE trig
  IN
  /\ last_internal_clock_time' =
       IF internal_clock_enabled /\ clock_trigger THEN t
       ELSE last_internal_clock_time
  /\ clock_age' = IF internal_clock_enabled /\ clock_trigger THEN 0
                  ELSE clock_age
  /\ IF clock_trigger
       THEN HandleTrigger(t, ~internal_clock_enabled)
       ELSE UNCHANGED <<bpm, step_interval_ms, last_gate_time, gate_triggered,
                        arp_step, last_step_time, clock_tick, prev_pass,
                        emitted, ticks, trig_seen, since_switch, tick_interval,
                        step_age>>

\* part_001: the tempo pot sets the note rate, or the gate input
ClockPot(t, trig) ==
  /\ UNCHANGED <<last_internal_clock_time, clock_age>>
  /\ IF internal_clock_enabled
       THEN /\ step_interval_ms' = RDiv(RInt(60000), bpm)
            /\ IF ~gate_triggered
                 THEN /\ gate_triggered' = TRUE
                      /\ arp_step' = 0
                      /\ last_step_time' = t
                      /\ step_age' = 0
                 ELSE UNCHANGED <<gate_triggered, arp_step, last_step_time,
                                  step_age>>
            /\ UNCHANGED <<bpm, last_gate_time, clock_tick, prev_pass,
                           emitted, ticks, trig_seen, since_switch, tick_interval>>
       ELSE IF trig
         THEN HandleTrigger(t, TRUE)
         ELSE UNCHANGED <<bpm, step_interval_ms, last_gate_time,
                          gate_triggered, arp_step, last_step_time,
                          clock_tick, prev_pass, emitted, ticks, trig_seen,
                          since_switch, tick_interval, step_age>>

Clock(trig) ==
  LET t == now IN
  /\ pc = "clock"
  /\ IF variant = "p001" THEN ClockPot(t, trig) ELSE ClockFixed(t, trig)
  /\ events' = events + Changed(trig /\ ~internal_clock_enabled)
  /\ pc' = "step"
  /\ UNCHANGED <<variant, now, iter, tempo_cv, internal_clock_enabled,
                 notes, pattern, outputs, mode_switch, note_act, promoted,
                 fired, fire_time, fire_root, low_since_fire, pattern_changed, trig_period>>

(* Phase 5: step emission and gate pulse *)

Step(rnd) ==
  LET t == now
      elapsed == Sub32(t, last_step_time)
      note == DrainedNote(arp_step, note_change_pending, quantized_note,
                          next_quantized_note)
      idx == GetPatternIndex(variant, current_pattern, arp_step, rnd)
  IN
  /\ pc = "step"
  /\ IF gate_triggered /\ StepDue(elapsed, step_interval_ms)
       THEN /\ quantized_note' = note
            /\ note_change_pending' =
                 IF arp_step = 0 THEN FALSE ELSE note_change_pending
            /\ chord_index' = idx
            /\ cv_out_1' = ClampCv(NoteToCv(note + chord_intervals[idx]))
            /\ gate_out_1' = TRUE
            /\ gate_wr' = "high"
            /\ arp_step' = (arp_step + 1) % StepModulus(variant, pattern_length)
            /\ last_step_time' = t
            /\ step_age' = 0
            /\ fired' = TRUE
            /\ fire_time' = t
            /\ fire_root' = note
            /\ low_since_fire' = FALSE
            /\ emitted' = Append(emitted, arp_step)
            /\ promoted' = (arp_step = 0 /\ note_change_pending)
       ELSE /\ IF GateLowDue(gate_triggered, elapsed)
                 THEN /\ gate_out_1' = FALSE
                      /\ gate_wr' = "low"
                      /\ low_since_fire' = TRUE
                 ELSE UNCHANGED <<gate_out_1, gate_wr, low_since_fire>>
            /\ UNCHANGED <<quantized_note, note_change_pending, chord_index,
                           cv_out_1, arp_step, last_step_time, step_age,
                           fired, fire_time, fire_root, emitted, promoted>>
  /\ pc' = "delay"
  /\ UNCHANGED <<variant, now, iter, events, tempo_cv, internal_clock_enabled,
                 bpm, last_gate_time,
                 gate_triggered, step_interval_ms, last_internal_clock_time,
                 base_note_cv, next_quantized_note, pattern, mode_switch,
                 note_act, clock_tick, prev_pass, ticks, trig_seen,
                 since_switch, tick_interval, pattern_changed, clock_age,
                 trig_period>>

(* Phase 6: hw.Delay(1), end of the iteration *)

\* a timestamp's real age after dt more ms
AgeAfter(age, dt) == IF age + dt < TickWrap THEN age + dt ELSE TickWrap

Delay(dt, bound) ==
  /\ pc = "delay"
  /\ iter < bound
  /\ now' = Add32(now, dt)
  /\ iter' = iter + 1
  /\ gate_wr' = "none"
  /\ mode_switch' = "none"
  /\ note_act' = "none"
  /\ promoted' = FALSE
  /\ clock_tick' = FALSE
  /\ pattern_changed' = FALSE
  /\ tick_interval' = -1
  /\ step_age' = AgeAfter(step_age, dt)
  /\ clock_age' = AgeAfter(clock_age, dt)
  /\ pc' = "toggle"
  /\ UNCHANGED <<variant, events, tempo_cv, engine, notes, pattern,
                 chord_index, cv_out_1,
                 gate_out_1, fired, fire_time, fire_root, low_since_fire,
                 emitted, prev_pass, ticks, trig_seen, since_switch,
                 trig_period>>

-----------------------------------------------------------------------------
(* The loop under any input sequence *)

\* rand() is read by the random pattern alone
RandValues == IF current_pattern = ARP_RANDOM(variant) THEN 0..7 ELSE {0}

ReadToggle == \E pressed \in BOOLEAN, tempo \in TempoCvSet :
                Toggle(pressed, tempo) /\ events' <= MaxEvents
ReadPattern == \E reading \in PatternCvSet :
                 PatternSelect(reading) /\ events' <= MaxEvents
ReadNote == \E cv \in RootCvSet : NoteCheck(cv) /\ events' <= MaxEvents
PollClock == \E trig \in BOOLEAN : Clock(trig) /\ events' <= MaxEvents
PlayStep == \E rnd \in RandValues : Step(rnd)
EndIteration == \E dt \in DtSet : Delay(dt, MaxIter)

Next == ReadToggle \/ ReadPattern \/ ReadNote \/ PollClock \/ PlayStep
          \/ EndIteration

Spec == Init /\ [][Next]_vars

(* The loop polled once per millisecond on the external clock, with a      *)
(* 4-step pattern, a C root and triggers trig_period ms apart              *)

SteadyTrig == Sub32(now, BootTime) % trig_period = 0

SteadyToggle == Toggle(FALSE, Rat(0, 1))
SteadyPattern == PatternSelect(Rat(-1, 1))
SteadyNote == NoteCheck(SteadyRootCv)
SteadyClock == Clock(SteadyTrig)
SteadyStep == Step(0)
SteadyDelay == Delay(1, SteadyMaxIter)

NextSteady == SteadyToggle \/ SteadyPattern \/ SteadyNote \/ SteadyClock
                \/ SteadyStep \/ SteadyDelay

SpecSteady == InitSteady /\ [][NextSteady]_vars

(* The loop on the external clock when the millisecond counter may go once  *)
(* around between two iterations, so that a trigger can carry the same      *)
(* timestamp as the recorded one                                            *)

WrapDtSet == {6, TickWrap}

WrapToggle == Toggle(FALSE, Rat(0, 1))
WrapPattern == \E reading \in PatternCvSet : PatternSelect(reading)
WrapNote == NoteCheck(Rat(0, 1))
WrapClock == \E trig \in BOOLEAN : Clock(trig)
WrapStep == \E rnd \in RandValues : Step(rnd)
WrapDelay == \E dt \in WrapDtSet : Delay(dt, MaxIter)

NextWrap == WrapToggle \/ WrapPattern \/ WrapNote \/ WrapClock \/ WrapStep
              \/ WrapDelay

SpecWrap == Init /\ [][NextWrap]_vars

-----------------------------------------------------------------------------
(* The loop on the external clock around the moment the millisecond counter *)
(* wraps to 0: the first iteration passes without a trigger and the counter *)
(* reads 0 in the second one; from then on triggers are free                *)

ZeroMaxIter == 4

ZeroToggle == Toggle(FALSE, Rat(0, 1))
ZeroPattern == PatternSelect(Rat(-1, 1))
ZeroNote == NoteCheck(Rat(0, 1))
ZeroClock == \E trig \in BOOLEAN : (trig => iter > 0) /\ Clock(trig)
ZeroStep == Step(0)
ZeroDelay ==
  \E dt \in (IF iter = 0 THEN {TickWrap - BootTime} ELSE DtSet) :
    Delay(dt, ZeroMaxIter)

NextZero == ZeroToggle \/ ZeroPattern \/ ZeroNote \/ ZeroClock \/ ZeroStep
              \/ ZeroDelay

SpecZero == Init /\ [][NextZero]_vars

-----------------------------------------------------------------------------
(* The loop while the millisecond counter rolls over: after a first          *)
(* iteration without a trigger the counter stands RollLead ms before the    *)
(* wrap; from then on the clock source, the tempo pot and the triggers are  *)
(* free and an iteration takes 6, 125 or 500 ms                             *)

RollMaxIter == 4
RollLead == 3           \* ms left to the wrap in the second iteration

RollDtSet == {6, 125, 500}

RollToggle == \E pressed \in BOOLEAN, tempo \in TempoCvSet :
                Toggle(pressed, tempo)
RollPattern == PatternSelect(Rat(-1, 1))
RollNote == NoteCheck(Rat(0, 1))
RollClock == \E trig \in BOOLEAN : (trig => iter > 0) /\ Clock(trig)
RollStep == Step(0)
RollDelay ==
  \E dt \in (IF iter = 0 THEN {TickWrap - BootTime - RollLead}
                          ELSE RollDtSet) :
    Delay(dt, RollMaxIter)

NextRoll == RollToggle \/ RollPattern \/ RollNote \/ RollClock \/ RollStep
              \/ RollDelay

SpecRoll == Init /\ [][NextRoll]_vars

(* The loop with the clock toggle operated and external triggers arriving,  *)
(* on the initial pattern and root                                          *)

SwitchMaxIter == 4      \* loop iterations explored by SpecSwitch

SwitchToggle == \E pressed \in BOOLEAN, tempo \in TempoCvSet :
                  Toggle(pressed, tempo)
SwitchPattern == PatternSelect(Rat(-1, 1))
SwitchNote == NoteCheck(Rat(0, 1))
SwitchClock == \E trig \in BOOLEAN : Clock(trig)
SwitchStep == Step(0)
SwitchDelay == \E dt \in DtSet : Delay(dt, SwitchMaxIter)

NextSwitch == SwitchToggle \/ SwitchPattern \/ SwitchNote \/ SwitchClock
                \/ SwitchStep \/ SwitchDelay

SpecSwitch == Init /\ [][NextSwitch]_vars

(* The loop on the external clock with the root CV moving, on the initial   *)
(* pattern                                                                  *)

NotesMaxIter == 4       \* loop iterations explored by SpecNotes

NotesToggle == Toggle(FALSE, Rat(0, 1))
NotesPattern == PatternSelect(Rat(-1, 1))
NotesRead == \E cv \in RootCvSet : NoteCheck(cv)
NotesClock == \E trig \in BOOLEAN : Clock(trig)
NotesStep == Step(0)
NotesDelay == \E dt \in DtSet : Delay(dt, NotesMaxIter)

NextNotes == NotesToggle \/ NotesPattern \/ NotesRead \/ NotesClock
               \/ NotesStep \/ NotesDelay

SpecNotes == Init /\ [][NextNotes]_vars

(* The pure functions applied to values drawn from their whole input range: *)
(* SelectPattern to a CV_1 reading, QuantizeCvToNote to a CV_5 reading,     *)
(* GetPatternIndex to a pattern and a step; pc then names the function that *)
(* has returned                                                             *)

FnMaxStep == 16     \* largest step GetPatternIndex is applied to

\* CV_1 readings from -1.5 to +1.5 in steps of 1/24
FnSelectorCvSet == {Rat(i, 24) : i \in (-36)..36}
\* the normalized CV_5 reading of each semitone -49..71: volts / 5
FnNoteCvSet == {RDiv(NoteToCv(n), RInt(5)) : n \in (-49)..71}

InitFn ==
  /\ InitRest
  /\ trig_period = 0
  /\ \/ /\ pc = "pattern"
        /\ variant \in Queued
        /\ pattern_cv \in FnSelectorCvSet
        /\ base_note_cv = Rat(0, 1)
        /\ current_pattern = 0 /\ pattern_length = 4 /\ arp_step = 0
     \/ /\ pc = "note"
        /\ variant \in Variants
        /\ base_note_cv \in FnNoteCvSet
        /\ pattern_cv = Rat(0, 1)
        /\ current_pattern = 0 /\ pattern_length = 4 /\ arp_step = 0
     \/ /\ pc = "step"
        /\ variant \in Queued
        /\ current_pattern \in 0..(ARP_PATTERN_COUNT(variant) - 1)
        /\ pattern_length = pattern_lengths(variant)[current_pattern]
        /\ arp_step \in 0..FnMaxStep
        /\ base_note_cv = Rat(0, 1)
        /\ pattern_cv = Rat(0, 1)

\* ArpPattern new_pattern = SelectPattern(pattern_cv)
FnSelect ==
  /\ pc = "pattern"
  /\ current_pattern' = SelectPattern(variant, pattern_cv)
  /\ pattern_length' = pattern_lengths(variant)[current_pattern']
  /\ pc' = "selected"
  /\ UNCHANGED <<variant, now, iter, events, tempo_cv, engine, notes,
                 pattern_cv, outputs, history, pattern_changed, ages,
                 trig_period>>

\* int new_note = QuantizeCvToNote(base_note_cv)
FnQuantize ==
  /\ pc = "note"
  /\ quantized_note' = QuantizeCvToNote(base_note_cv)
  /\ pc' = "quantized"
  /\ UNCHANGED <<variant, now, iter, events, tempo_cv, engine, base_note_cv,
                 next_quantized_note, note_change_pending, pattern, outputs,
                 history, pattern_changed, ages, trig_period>>

\* int chord_index = GetPatternIndex(current_pattern, arp_step)
FnIndex(rnd) ==
  /\ pc = "step"
  /\ chord_index' = GetPatternIndex(variant, current_pattern, arp_step, rnd)
  /\ pc' = "indexed"
  /\ UNCHANGED <<variant, now, iter, events, tempo_cv, engine, notes,
                 pattern, cv_out_1, gate_out_1, gate_wr, history,
                 pattern_changed, ages, trig_period>>

FnStep == \E rnd \in RandValues : FnIndex(rnd)

NextFn == FnSelect \/ FnQuantize \/ FnStep

SpecFn == InitFn /\ [][NextFn]_vars

-----------------------------------------------------------------------------
(* Properties of the note-change queue (part_000, part_001) *)

\* the note quantized from the root CV read in this iteration
NewNote == QuantizeCvToNote(base_note_cv)

\* C1: in the variants with a note-change queue, no step of the loop changes
\* quantized_note while gate_triggered is true and arp_step # 0; a differing
\* note read then is only stored in next_quantized_note, with
\* note_change_pending set.
C1_RootFrozenMidPattern ==
  [][(variant \in Queued /\ gate_triggered /\ arp_step # 0) =>
       /\ quantized_note' = quantized_note
       /\ (pc = "note" /\ NoteChanged(QuantizeCvToNote(base_note_cv'),
                                      quantized_note, next_quantized_note)) =>
            /\ next_quantized_note' = QuantizeCvToNote(base_note_cv')
            /\ note_change_pending' = TRUE]_vars

\* C1 witness: mid-pattern, a differing note has just been queued
C1_Witness ==
  /\ pc = "clock" /\ variant \in Queued /\ note_act = "queued"
  /\ gate_triggered /\ arp_step # 0 /\ fired
  /\ note_change_pending
  /\ next_quantized_note = NewNote /\ quantized_note # NewNote

\* C2: a step emitted with arp_step = 0 while a note change is pending plays
\* the pending note: the pitch written is next_quantized_note plus the chord
\* offset, and afterwards quantized_note is the promoted note and
\* note_change_pending is false.
C2_PromoteBeforeChord ==
  [][(pc = "step" /\ gate_wr' = "high" /\ arp_step = 0 /\ note_change_pending) =>
       /\ quantized_note' = next_quantized_note
       /\ note_change_pending' = FALSE
       /\ chord_index' \in 0..3
       /\ cv_out_1' = ClampCv(NoteToCv(next_quantized_note
                                       + chord_intervals[chord_index']))]_vars

\* C2 witness: step 0 has just been emitted with a promoted note that is
\* not the root the previous pass played
C2_Witness ==
  /\ pc = "delay" /\ promoted /\ gate_wr = "high"
  /\ Len(prev_pass) > 0
  /\ quantized_note = next_quantized_note /\ ~note_change_pending
  /\ cv_out_1 = ClampCv(NoteToCv(quantized_note + chord_intervals[chord_index]))
  /\ cv_out_1 # RInt(0)

\* C3: a note that differs from the active root and from the pending value,
\* read while idle or at step 0, becomes the active root at once and clears
\* the pending buffer.
C3_ImmediateChange ==
  [][(pc = "note" /\ variant \in Queued
      /\ NoteChanged(QuantizeCvToNote(base_note_cv'), quantized_note,
                     next_quantized_note)
      /\ (~gate_triggered \/ arp_step = 0)) =>
       /\ quantized_note' = QuantizeCvToNote(base_note_cv')
       /\ next_quantized_note' = QuantizeCvToNote(base_note_cv')
       /\ note_change_pending' = FALSE]_vars

\* C3 witness: a note has just been applied at step 0 of a running pattern
C3_Witness ==
  /\ pc = "clock" /\ variant \in Queued /\ note_act = "immediate"
  /\ gate_triggered /\ arp_step = 0
  /\ quantized_note = NewNote /\ next_quantized_note = NewNote
  /\ ~note_change_pending

\* C4: a note equal to the active root or to the pending value leaves
\* quantized_note, next_quantized_note and note_change_pending unchanged.
C4_EqualNoteNoOp ==
  [][(pc = "note" /\ variant \in Queued
      /\ (QuantizeCvToNote(base_note_cv') = quantized_note
          \/ QuantizeCvToNote(base_note_cv') = next_quantized_note)) =>
       UNCHANGED <<quantized_note, next_quantized_note,
                   note_change_pending>>]_vars

\* C4 witness: the pending value has just been read again, at step 0
C4_Witness ==
  /\ pc = "clock" /\ variant \in Queued /\ note_act = "noop"
  /\ note_change_pending /\ arp_step = 0 /\ gate_triggered
  /\ NewNote = next_quantized_note /\ NewNote # quantized_note

\* C17: a step emitted with arp_step # 0 continues the pass of the step
\* emitted before it (a clock tick, a pattern change or a restart after an
\* internal->external switch would have set arp_step to 0), and it is
\* computed from the same root note as that step, whatever root CV readings
\* arrived in between.
C17_OneRootPerPass ==
  [][(pc = "step" /\ gate_wr' = "high" /\ arp_step # 0) =>
       (fired /\ fire_root' = fire_root)]_vars

\* C23: whenever a pending note is promoted at a step-0 emission, the
\* promoted note is the note quantized from the root CV read in that same
\* iteration.
C23_PromotedNoteIsCurrent ==
  [][(pc = "step" /\ promoted') =>
       quantized_note' = QuantizeCvToNote(base_note_cv)]_vars

\* C24: in the variants with a note-change queue, at every loop-iteration
\* boundary (and at every phase in between) note_change_pending = false
\* implies next_quantized_note = quantized_note and note_change_pending =
\* true implies next_quantized_note # quantized_note.
C24_QueueConsistent ==
  variant \in Queued =>
    (note_change_pending <=> next_quantized_note # quantized_note)

\* C24 witness: an iteration boundary with a differing note pending behind a
\* root, other than the initial one, that the last step has played
C24_Witness ==
  /\ pc = "toggle" /\ variant \in Queued /\ iter > 0
  /\ note_change_pending /\ next_quantized_note # quantized_note
  /\ fire_root # QuantizeCvToNote(Rat(0, 1)) /\ fire_root = quantized_note
  /\ Len(prev_pass) > 0

-----------------------------------------------------------------------------
(* Properties of the clock handling *)

\* C5: in external-clock mode a trigger d > 0 ms after the previously
\* recorded external trigger leaves bpm = 60000 / d and
\* step_interval_ms = d / pattern_length.
C5_TempoInference ==
  [][(pc = "clock" /\ ~internal_clock_enabled /\ clock_tick'
      /\ trig_seen /\ Sub32(now, last_gate_time) > 0) =>
       /\ bpm' = Rat(60000, Sub32(now, last_gate_time))
       /\ step_interval_ms' =
            Rat(Sub32(now, last_gate_time), pattern_length)]_vars

\* C6: on a steady external clock with a 4-step pattern, once the tempo is
\* measured, the steps 0, 1, 2, 3 are each emitted exactly once between two
\* consecutive triggers.
C6_FourNotesPerTrigger ==
  ticks >= 3 => prev_pass = <<0, 1, 2, 3>>

\* C11: an external trigger that is 0 ms after the previously recorded
\* trigger leaves bpm and step_interval_ms at their previous values and still
\* resets playback: arp_step = 0, gate_triggered, and last_step_time and
\* last_gate_time are the trigger time.
C11_ZeroIntervalKeepsTempo ==
  [][(pc = "clock" /\ ~internal_clock_enabled /\ clock_tick'
      /\ trig_seen /\ Sub32(now, last_gate_time) = 0) =>
       /\ bpm' = bpm
       /\ step_interval_ms' = step_interval_ms
       /\ arp_step' = 0
       /\ gate_triggered' = TRUE
       /\ last_step_time' = now
       /\ last_gate_time' = now]_vars

\* C11 witness: a trigger with a zero interval has just been handled after
\* a tempo other than the initial one was measured and a step was played
C11_Witness ==
  /\ pc = "step" /\ clock_tick /\ tick_interval = 0
  /\ bpm # RInt(120) /\ fired
  /\ arp_step = 0 /\ gate_triggered
  /\ last_step_time = now /\ last_gate_time = now

\* C16: a clock tick wins over a step that is due in the same iteration: the
\* tick sets arp_step to 0 and last_step_time to the tick time before the
\* step check, the step check of that iteration emits nothing, and the first
\* step emitted after a tick is step 0.
C16_TickWinsOverStep ==
  [][/\ (pc = "clock" /\ clock_tick') =>
          (arp_step' = 0 /\ last_step_time' = now)
     /\ (pc = "step" /\ clock_tick) =>
          (gate_wr' # "high" /\ arp_step' = 0 /\ last_step_time' = now)
     /\ (pc = "step" /\ gate_wr' = "high" /\ emitted = <<>>) =>
          arp_step = 0]_vars

\* C16 witness: in arp.cpp the second external trigger arrived 125 ms after
\* the last step, in the iteration in which the next step was due under the
\* initial 125 ms step interval, and no step was emitted
C16_Witness ==
  /\ pc = "delay" /\ variant = "arp" /\ clock_tick
  /\ ~internal_clock_enabled /\ tick_interval > 0 /\ ticks = 2
  /\ fired /\ Len(prev_pass) > 0 /\ Sub32(now, fire_time) = 125
  /\ gate_wr # "high" /\ arp_step = 0 /\ last_step_time = now

\* C18: the first external trigger after an internal->external switch leaves
\* bpm and step_interval_ms unchanged, records its timestamp and starts
\* playback at step 0; the second one recomputes bpm as 60000 / d and the
\* step interval as a quarter (arp.cpp, part_000) or the pattern_length-th
\* part (part_001) of d, the interval between those two triggers.
C18_FreshMeasurementAfterSwitch ==
  [][/\ (pc = "clock" /\ clock_tick' /\ ~internal_clock_enabled
         /\ since_switch = 0) =>
          /\ bpm' = bpm /\ step_interval_ms' = step_interval_ms
          /\ last_gate_time' = now
          /\ gate_triggered' = TRUE /\ arp_step' = 0
     /\ (pc = "clock" /\ clock_tick' /\ ~internal_clock_enabled
         /\ since_switch = 1 /\ Sub32(now, last_gate_time) > 0) =>
          /\ bpm' = Rat(60000, Sub32(now, last_gate_time))
          /\ step_interval_ms' =
               Rat(Sub32(now, last_gate_time),
                   IF variant = "p001" THEN pattern_length ELSE ArpSteps)]_vars

\* C18 witness: the second trigger after a switch has just set a tempo
\* from its distance to the first one
C18_Witness ==
  /\ pc = "step" /\ clock_tick /\ since_switch = 2
  /\ tick_interval > 0 /\ bpm = Rat(60000, tick_interval)
  /\ last_gate_time = now /\ arp_step = 0 /\ gate_triggered

\* C26: in external mode last_gate_time = 0 exactly when no external
\* trigger has been recorded since startup or since the last
\* internal->external switch, and every trigger that follows a recorded one
\* by d > 0 ms sets bpm = 60000 / d, also when the recorded one has
\* timestamp 0.
C26_ZeroMeansNoTrigger ==
  /\ [](~internal_clock_enabled => (last_gate_time = 0 <=> ~trig_seen))
  /\ [][(pc = "clock" /\ ~internal_clock_enabled /\ clock_tick'
         /\ trig_seen /\ Sub32(now, last_gate_time) > 0) =>
          bpm' = Rat(60000, Sub32(now, last_gate_time))]_vars

\* C28: the elapsed-time tests survive the wrap of the millisecond counter.
\* With less than one full counter period really passed since the reference
\* timestamp was written: while playing, a step is emitted in an iteration
\* exactly when at least step_interval_ms have really passed since
\* last_step_time; otherwise the gate is written low exactly when more than
\* 10 ms have passed; and the internal clock of arp.cpp and part_000 ticks
\* exactly when at least internal_clock_interval_ms have passed since
\* last_internal_clock_time.
C28_TimingSurvivesWrap ==
  /\ [][(pc = "step" /\ gate_triggered /\ step_age < TickWrap) =>
          /\ gate_wr' = "high" <=> RLe(step_interval_ms, RInt(step_age))
          /\ gate_wr' = "low" <=>
                (~RLe(step_interval_ms, RInt(step_age))
                   /\ step_age > GatePulseMs)]_vars
  /\ [][(pc = "clock" /\ variant # "p001" /\ internal_clock_enabled
           /\ clock_age < TickWrap) =>
          (clock_tick' <=> clock_age >= internal_clock_interval_ms)]_vars

\* C28 witness: the iteration after the wrap has emitted a step whose
\* reference timestamp, 125 ms back, lies before the wrap
C28_Witness ==
  /\ pc = "delay" /\ iter > 0 /\ gate_wr = "high"
  /\ step_interval_ms = RInt(125) /\ now < 125
  /\ last_step_time = now /\ step_age = 0
  /\ ~internal_clock_enabled /\ emitted = <<0>>

-----------------------------------------------------------------------------
(* Properties of the gate pulse *)

C8_GateLowBetweenSteps ==
  [][(pc = "step" /\ gate_wr' = "high" /\ fired
      /\ RLt(RInt(GatePulseMs), step_interval_ms)) =>
       low_since_fire]_vars

\* C12 as stated: in every reachable state, gate high implies
\* gate_triggered.
C12_GateHighImpliesTriggered == gate_out_1 => gate_triggered

\* C12 amended: an iteration that ends with gate_triggered = false has
\* written the gate low and has not written CV_OUT_1, so at the end of every
\* iteration gate high implies gate_triggered; between the toggle phase and
\* the step phase of an iteration that switches from the internal to the
\* external clock the gate may still be high with gate_triggered false.
C12_IdleQuiescent ==
  /\ (pc = "delay" /\ ~gate_triggered) => (gate_wr = "low" /\ ~gate_out_1)
  /\ (pc = "delay" /\ gate_out_1) => gate_triggered
  /\ (pc \in {"pattern", "note", "clock", "step"} /\ gate_out_1
      /\ ~gate_triggered) => mode_switch = "to_external"

\* C12 witness: an iteration that stopped playback within the pulse of the
\* last step has just written the gate low
C12_Witness ==
  /\ pc = "delay" /\ ~gate_triggered /\ gate_wr = "low" /\ ~gate_out_1
  /\ mode_switch = "to_external" /\ fired
  /\ Sub32(now, fire_time) <= GatePulseMs

-----------------------------------------------------------------------------
(* Properties of the clock-source toggle *)

C19_InternalStepInterval ==
  (pc = "delay" /\ internal_clock_enabled) =>
    step_interval_ms = RDiv(RDiv(RInt(60000), bpm), RInt(pattern_length))

\* C25: once gate_triggered is true it stays true in every step of the loop
\* other than the processing of an internal->external transition, and while
\* it is true no due step is left unplayed at the end of an iteration, so
\* after a single trigger the engine keeps stepping through the pattern with
\* no further trigger.
C25_PlaybackNeverStopsAlone ==
  /\ [][(gate_triggered
         /\ ~(pc = "toggle" /\ internal_clock_enabled
               /\ ~internal_clock_enabled')) => gate_triggered']_vars
  /\ []((pc = "delay" /\ gate_triggered) =>
         ~StepDue(Sub32(now, last_step_time), step_interval_ms))

\* C25 witness: after a single external trigger and no other tick, a whole
\* pass has been played and the step counter is back at 0, still playing
C25_Witness ==
  /\ pc = "delay" /\ gate_triggered /\ ticks = 1 /\ since_switch = -1
  /\ ~internal_clock_enabled
  /\ gate_wr = "high" /\ emitted = <<0, 1, 2, 3>> /\ arp_step = 0

-----------------------------------------------------------------------------
(* Properties of the pattern selection *)

\* C20: a step emitted while a pattern other than the initial one is active
\* (so after a pattern change) has step_interval_ms * pattern_length equal to
\* the quarter-note duration 60000 / bpm, which in external mode is the last
\* measured trigger interval.
C20_PassTakesOneBeat ==
  [][(pc = "step" /\ gate_wr' = "high" /\ current_pattern # 0) =>
       RMul(step_interval_ms, RInt(pattern_length)) =
         RDiv(RInt(60000), bpm)]_vars

\* C21 as stated: a pattern change leaves arp_step = 0 and
\* gate_triggered = false.
C21_PatternChangeStops ==
  [][(pc = "pattern" /\ current_pattern' # current_pattern) =>
       (arp_step' = 0 /\ gate_triggered' = FALSE)]_vars

\* C21 amended: a pattern change leaves arp_step = 0 and leaves
\* gate_triggered at the value it had, so a running playback goes on from
\* step 0 of the new pattern without waiting for a clock tick.
C21_PatternChangeRestartsPattern ==
  [][(pc = "pattern" /\ current_pattern' # current_pattern) =>
       (arp_step' = 0 /\ gate_triggered' = gate_triggered)]_vars

\* C21 witness: after a pattern change the first step of the new pattern has
\* been emitted in the same iteration, with no clock tick in it
C21_Witness ==
  /\ pc = "delay" /\ pattern_changed /\ ~clock_tick /\ gate_triggered
  /\ gate_wr = "high" /\ Len(emitted) > 1 /\ arp_step = 1

\* C22: in every reachable state 0 <= arp_step < pattern_length and
\* pattern_length = pattern_lengths[current_pattern], and the chord index of
\* every step emission, of the fixed patterns and of the random one, is in
\* 0..3.
C22_ArrayAccessSafe ==
  /\ 0 <= arp_step /\ arp_step < pattern_length
  /\ current_pattern \in 0..(ARP_PATTERN_COUNT(variant) - 1)
  /\ pattern_length = pattern_lengths(variant)[current_pattern]
  /\ chord_index \in 0..3

\* C22 witness: the last step of a pass of the random pattern has been
\* emitted, after a pattern change, with a chord index taken from rand()
C22_Witness ==
  /\ pc = "delay" /\ gate_wr = "high"
  /\ current_pattern = ARP_RANDOM(variant) /\ chord_index = 3
  /\ Len(emitted) > 0 /\ emitted[Len(emitted)] = pattern_length - 1
  /\ arp_step = 0

-----------------------------------------------------------------------------
(* Properties of the pitch output *)

\* the clamped voltage of every root note -49..71 with every chord offset
\* lies in [0 V, 5 V]
EveryPitchInRange ==
  \A n \in (-49)..71, i \in 0..3 :
    LET v == ClampCv(NoteToCv(n + chord_intervals[i]))
    IN  RLe(RInt(0), v) /\ RLe(v, RInt(5))

\* C10: every value written to CV_OUT_1 lies in [0 V, 5 V]: it is the
\* voltage (root + chord offset - 11) / 12 clamped to that range, for every
\* root note -49..71 and every chord offset.
C10_PitchInRange ==
  /\ RLe(RInt(0), cv_out_1) /\ RLe(cv_out_1, RInt(5))
  /\ gate_wr = "high" =>
       cv_out_1 = ClampCv(NoteToCv(quantized_note
                                   + chord_intervals[chord_index]))
  /\ EveryPitchInRange

\* C10 witness: a step has just written a pitch that the clamp cut to 5 V
C10_Witness ==
  /\ pc = "delay" /\ gate_wr = "high"
  /\ RLt(RInt(5), NoteToCv(quantized_note + chord_intervals[chord_index]))
  /\ cv_out_1 = RInt(5)

-----------------------------------------------------------------------------
(* Properties of the pure functions *)

\* C13: for every non-random pattern of part_000 and part_001,
\* GetPatternIndex(pattern, step) is the element of the pattern's literal
\* sequence at step mod pattern_lengths[pattern], for every step >= 0; for
\* steps 0..length-1 it reproduces the sequence (ARP_UP_DOWN of part_001:
\* 0,1,2,3,2,1; ARP_DOWN_UP: 3,2,1,0,1,2).
C13_PatternMatchesTable ==
  (pc = "indexed" /\ current_pattern # ARP_RANDOM(variant)) =>
    LET seq == IF variant = "p000"
               THEN CASE current_pattern = 0 -> <<0, 1, 2, 3>>
                      [] current_pattern = 1 -> <<3, 2, 1, 0>>
                      [] current_pattern = 2 -> <<0, 1, 2, 3>>
                      [] current_pattern = 3 -> <<3, 2, 1, 0>>
                      [] current_pattern = 4 -> <<0, 1, 2, 3, 3, 2, 1, 0>>
                      [] current_pattern = 5 -> <<3, 2, 1, 0, 0, 1, 2, 3>>
                      [] OTHER -> <<0, 2, 1, 3>>
               ELSE CASE current_pattern = 0 -> <<0, 1, 2, 3>>
                      [] current_pattern = 1 -> <<3, 2, 1, 0>>
                      [] current_pattern = 2 -> <<0, 1, 2, 3, 2, 1>>
                      [] current_pattern = 3 -> <<3, 2, 1, 0, 1, 2>>
                      [] OTHER -> <<0, 2, 1, 3>>
    IN  /\ Len(seq) = pattern_lengths(variant)[current_pattern]
        /\ chord_index = seq[(arp_step % pattern_lengths(variant)[current_pattern]) + 1]

\* C13 witness: step 5 of ARP_DOWN_UP of part_001 has given chord index 2
C13_Witness ==
  /\ pc = "indexed" /\ variant = "p001" /\ current_pattern = 3
  /\ arp_step = 5 /\ chord_index = 2

\* C14: SelectPattern returns a pattern id in 0..ARP_PATTERN_COUNT-1 for
\* every reading, also below -1 and above +1; over the nominal range
\* (-1..+1 in part_000, 0..1 in part_001) the id is min(floor(x * N), N-1)
\* of the reading x rescaled to 0..1, i.e. N buckets of equal width, and
\* every pattern has a reading that selects it.
C14_SelectPatternBuckets ==
  /\ pc = "selected" =>
       LET N == ARP_PATTERN_COUNT(variant)
           nominal == IF variant = "p000"
                      THEN RLe(RInt(-1), pattern_cv) /\ RLe(pattern_cv, RInt(1))
                      ELSE RLe(RInt(0), pattern_cv) /\ RLe(pattern_cv, RInt(1))
           x == IF variant = "p000"
                THEN RDiv(RAdd(pattern_cv, RInt(1)), RInt(2))
                ELSE pattern_cv
           xN == RMul(x, RInt(N))
       IN  /\ current_pattern \in 0..(N - 1)
           /\ nominal =>
                /\ RLe(RInt(current_pattern), xN)
                /\ RLt(xN, RInt(current_pattern + 1))
                     \/ current_pattern = N - 1
  /\ \A v \in Queued : \A k \in 0..(ARP_PATTERN_COUNT(v) - 1) :
       \E cv \in FnSelectorCvSet :
         /\ SelectPattern(v, cv) = k
         /\ RLe(RInt(IF v = "p000" THEN -1 ELSE 0), cv) /\ RLe(cv, RInt(1))

\* C14 witness: in part_001 a reading above +1 has selected the last pattern
C14_Witness ==
  /\ pc = "selected" /\ variant = "p001"
  /\ RLt(RInt(1), pattern_cv) /\ current_pattern = 5

\* C27: in part_001 SelectPattern is non-decreasing over the readings
\* -1..+1: the pattern selected for a reading x is not above the pattern of
\* any reading y >= x of that range.
C27_SelectPatternMonotone ==
  (pc = "selected" /\ variant = "p001"
     /\ RLe(RInt(-1), pattern_cv) /\ RLe(pattern_cv, RInt(1))) =>
    \A y \in FnSelectorCvSet :
      (RLe(pattern_cv, y) /\ RLe(y, RInt(1))) =>
        current_pattern <= SelectPattern("p001", y)

\* C15: for every note n in -49..71, QuantizeCvToNote applied to the
\* normalized reading NoteToCv(n) / 5 returns n.
C15_QuantizerRoundTrip ==
  (pc = "quantized" /\ base_note_cv \in FnNoteCvSet) =>
    base_note_cv = RDiv(NoteToCv(quantized_note), RInt(5))

\* C15 witness: the reading of note 60 (49/12 V) has been quantized to 60
C15_Witness ==
  /\ pc = "quantized" /\ base_note_cv = Rat(49, 60) /\ quantized_note = 60

====
